---------------------------- MODULE Spec2Model ----------------------------
(***************************************************************************)
(* State-machine model of the racetime.gg bot client:                      *)
(*   RacetimeClient  (src/src/index.ts)            -- facade / registry    *)
(*   WebSocketClient (src/src/websocket/client.ts) -- one race room socket *)
(*                                                                         *)
(* The runtime is single threaded and event driven.  An action is one turn *)
(* of the event loop: an I/O completion, a socket event or an application  *)
(* call, followed by the promise continuations it makes runnable, up to    *)
(* the next await that needs I/O.  The remote server, the token endpoint   *)
(* and the clock are the environment.                                      *)
(***************************************************************************)
EXTENDS Integers, Sequences, FiniteSets, TLC

(* ------------------------------ bounds -------------------------------- *)
MaxTicks     == 2        \* clock steps taken in a behaviour
TickMs       == 15000    \* milliseconds the clock advances per step
MaxMsgs      == 2        \* sendMessage calls made directly on a session
MaxCalls     == 2        \* public operations started by the callers

(* --------------------------- program constants ------------------------ *)
CacheWindowMs   == 1000 * 30     \* index.ts:122
MsPerSecond     == 1000          \* index.ts:191
NormalCloseCode == 1000          \* index.ts:68
CreatedStatus   == 201           \* index.ts:92
CANCELLED       == "cancelled"   \* RaceStatusText.CANCELLED
OPEN            == "open"        \* RaceStatusText.OPEN
CANCEL          == "cancel"      \* RTPacketTypes.CANCEL
MESSAGE         == "message"     \* RTPacketTypes.MESSAGE

(* --------------------------- environment ------------------------------ *)
RaceUrls     == {"/cat/race-1", "/cat/race-2"}      \* the races the server knows or creates
Endpoints    == {"/ws/o/bot/race-1", "/ws/o/bot/race-2"}
CallerRaces  == {"/cat/race-1"}                     \* race urls the callers pass in
CallerRooms  == {"/ws/o/bot/race-1"}                \* room urls the callers pass in
\* websocket_bot_url the server reports for race r, and the race behind room e
WsOf(r)      == IF r = "/cat/race-1" THEN "/ws/o/bot/race-1" ELSE "/ws/o/bot/race-2"
RaceOf(e)    == IF e = "/ws/o/bot/race-1" THEN "/cat/race-1" ELSE "/cat/race-2"
\* the Location of the n-th race the server creates: every creation is a new race
NthRace(n)   == IF n = 1 THEN "/cat/race-1" ELSE "/cat/race-2"
ExpiresIn    == {30}                     \* expires_in values (seconds) the token endpoint grants
\* the token endpoint grants a token or answers non-OK
TokenOutcomes == {"granted", "denied"}
CloseCodes   == {1000, 1006}             \* close codes the socket may report
PostStatuses == {201, 400}
GetStatuses  == {200, 404}
ErrorBody    == "Bad Request"

Callers == {1, 2}                        \* concurrent callers of the public operations
Ctor    == 0                             \* the constructor's own authorize() call
Procs   == {Ctor} \cup Callers
SessionIds == 1..MaxCalls                \* a call constructs at most one session

VARIABLES
    now,               \* new Date().getTime()
    auth,              \* RacetimeClient.auth: 0 = undefined, else the token, named by
                       \* the instant it expires
    authExpireTime,    \* RacetimeClient.authExpireTime (ms)
    sockets,           \* RacetimeClient.sockets: endpoint -> session index (0 = no entry)
    raceDetailsCache,  \* RacetimeClient.raceDetailsCache: race url -> snapshot
    sess,              \* every WebSocketClient constructed so far
    proc,              \* the async calls in progress, one per caller
    srv,               \* the server's race status per race url
    msgCount,          \* RTAction objects created so far
    calls,             \* public operations started so far
    created,           \* races the server created so far
    uncaught,          \* an exception escaped from an event handler
    heard              \* the last inbound frame and what handling it emitted

vars == <<now, auth, authExpireTime, sockets, raceDetailsCache, sess, proc, srv,
          msgCount, calls, created, uncaught, heard>>

(* ------------------------------ values -------------------------------- *)
NullSnap == [present |-> FALSE, url |-> "", status |-> "", ws |-> "", last_updated |-> 0]
NoResp   == [status |-> 0, ok |-> FALSE, location |-> "", body |-> "", decodes |-> FALSE,
             doc |-> NullSnap]
NoErr    == [thrown |-> FALSE, msg |-> "", body |-> ""]

Err(m, b) == [thrown |-> TRUE, msg |-> m, body |-> b]

RTAction(a, n) == [action |-> a, id |-> n]

\* JSON.stringify(message): the text frame put on the transport
Stringify(m) == [json |-> m]

IdleProc == [op |-> "idle", pc |-> "idle", stack |-> <<>>, url |-> "", ep |-> "",
             connect |-> FALSE, req |-> "", resp |-> NoResp, snap |-> NullSnap,
             retBool |-> FALSE, err |-> NoErr, waitSess |-> 0, promise |-> "none",
             hit |-> FALSE, fdFresh |-> FALSE, fdDone |-> FALSE, nGets |-> 0,
             nConns |-> 0, found |-> FALSE,
             azFailure |-> "", nAuthErr |-> 0, staleSends |-> 0]

(* ------------------------- WebSocketClient ---------------------------- *)
\* client.ts:31-37: fields after construction; the socket is connecting and
\* carries the bearer token read from client.auth at construction time.
NewWebSocketClient(raceSocketUrl, token) ==
    [url |-> raceSocketUrl, ready |-> FALSE, messageQueue |-> <<>>,
     sock |-> "connecting", token |-> token, closeCode |-> 0,
     wire |-> <<>>,        \* frames the transport accepted, in order
     lost |-> 0,           \* socket.send calls made on the socket after it closed
     erredLate |-> FALSE,  \* the socket emitted 'error' with no join waiting on it
     staleToken |-> FALSE, \* the token was missing or expired at the handshake
     pre |-> <<>>]         \* actions passed to sendMessage before ready was set

\* socket.send(data) of the ws transport: delivered only on an open socket
SocketSend(s, data) ==
    IF s.sock = "open" THEN [s EXCEPT !.wire = Append(@, data)]
                       ELSE [s EXCEPT !.lost = @ + 1]

RECURSIVE SendAll(_, _)
SendAll(s, q) ==
    IF q = <<>> THEN s ELSE SendAll(SocketSend(s, Stringify(Head(q))), Tail(q))

\* a sendMessage that queues whatever the state of the session
SessSendMessageQueues(s, message) == [s EXCEPT !.messageQueue = Append(@, message)]

\* a sendMessage that discards the action while the handshake is in progress
SessSendMessageDrops(s, message) ==
    IF ~s.ready THEN s ELSE SocketSend(s, Stringify(message))

\* client.ts:64-73
SessSendMessage(s, message) ==
    IF ~s.ready THEN [s EXCEPT !.messageQueue = Append(@, message)]
                ELSE SocketSend(s, Stringify(message))

Reverse(q) == [k \in 1..Len(q) |-> q[Len(q) + 1 - k]]

\* a flush that drains the queue from its newest entry
OpenHandlerLifo(s) ==
    [SendAll([s EXCEPT !.ready = TRUE], Reverse(s.messageQueue)) EXCEPT !.messageQueue = <<>>]

\* client.ts:39-46 (after the 'ready' listeners ran): ready, flush, clear
OpenHandler(s) ==
    [SendAll([s EXCEPT !.ready = TRUE], s.messageQueue) EXCEPT !.messageQueue = <<>>]

\* sendMessage together with the bookkeeping of what was asked before/after ready
Submit(s, message) ==
    LET t == SessSendMessage(s, message)
    IN  IF s.ready THEN t ELSE [t EXCEPT !.pre = Append(@, message)]

\* the server applies a cancel command as soon as the frame reaches it
Applied(status, old, new) ==
    IF \E i \in (Len(old.wire) + 1)..Len(new.wire) : new.wire[i].json.action = CANCEL
    THEN CANCELLED ELSE status

(* ----------------- inbound frames (client.ts:48-51, 75-114) ----------- *)
\* RTMessageTypes (types: 73-86); CHAT_UNPIN carries the value of CHAT_PIN
CHAT_HISTORY == "chat.history"
CHAT_MESSAGE == "chat.message"
CHAT_DM      == "chat.dm"
CHAT_PIN     == "chat.pin"
CHAT_UNPIN   == "chat.pin"
CHAT_DELETE  == "chat.delete"
CHAT_PURGE   == "chat.purge"
ERROR        == "error"
PONG         == "pong"
RACE_DATA    == "race.data"
RACE_RENDERS == "race.renders"

\* the type field of the frames the server may send, known to the client or not
FrameTypes ==
    {CHAT_HISTORY, CHAT_MESSAGE, CHAT_DM, CHAT_PIN, CHAT_DELETE, CHAT_PURGE, ERROR, PONG,
     RACE_DATA, RACE_RENDERS, "chat.unpin", "bogus.kind"}
Payloads   == {"a", "b"}

\* the text frames on the wire: a JSON document, or text that is not JSON
Frames ==
    {[wellformed |-> TRUE, json |-> [type |-> t, payload |-> b]] :
        t \in FrameTypes, b \in Payloads}
    \cup {[wellformed |-> FALSE, json |-> [type |-> "", payload |-> ""]]}

\* JSON.parse(data.toString()): the document, or a SyntaxError
JsonParse(data) ==
    IF data.wellformed THEN [ok |-> TRUE, message |-> data.json]
                       ELSE [ok |-> FALSE, message |-> data.json]

\* a switch whose unpin case stands before its pin case
CasesUnpinFirst ==
    << [label |-> CHAT_DELETE,  event |-> "chat-delete"],
       [label |-> CHAT_DM,      event |-> ""],
       [label |-> CHAT_HISTORY, event |-> "chat-history"],
       [label |-> CHAT_MESSAGE, event |-> "chat-message"],
       [label |-> CHAT_UNPIN,   event |-> "chat-unpin"],
       [label |-> CHAT_PIN,     event |-> "chat-pin"],
       [label |-> CHAT_PURGE,   event |-> "chat-purge"],
       [label |-> ERROR,        event |-> "rt error"],
       [label |-> PONG,         event |-> ""],
       [label |-> RACE_DATA,    event |-> "race-data"],
       [label |-> RACE_RENDERS, event |-> ""] >>

\* client.ts:77-110: the case labels of the switch in source order, each with
\* the event its body emits ("" for a body that only breaks)
Cases ==
    << [label |-> CHAT_DELETE,  event |-> "chat-delete"],
       [label |-> CHAT_DM,      event |-> ""],
       [label |-> CHAT_HISTORY, event |-> "chat-history"],
       [label |-> CHAT_MESSAGE, event |-> "chat-message"],
       [label |-> CHAT_PIN,     event |-> "chat-pin"],
       [label |-> CHAT_UNPIN,   event |-> "chat-unpin"],
       [label |-> CHAT_PURGE,   event |-> "chat-purge"],
       [label |-> ERROR,        event |-> "rt error"],
       [label |-> PONG,         event |-> ""],
       [label |-> RACE_DATA,    event |-> "race-data"],
       [label |-> RACE_RENDERS, event |-> ""] >>

\* a default branch that lets the frame pass
UnknownTypeIgnored(message) == NoErr

\* client.ts:111-112
UnknownType(message) == Err("Unknown message type", message.type)

Emit(event, arg) == [event |-> event, arg |-> arg]

\* client.ts:75-114: the events emitted and the error raised for a frame; a
\* switch runs the first case whose label equals message.type
HandleMessage(data) ==
    LET parsed  == JsonParse(data)
        message == parsed.message
        hits    == {k \in DOMAIN Cases : Cases[k].label = message.type}
        first   == CHOOSE k \in hits : \A j \in hits : k <= j
    IN  IF ~parsed.ok
        THEN [emitted |-> <<>>, err |-> Err("SyntaxError", "")]
        ELSE IF hits = {}
        THEN [emitted |-> <<>>, err |-> UnknownType(message)]
        ELSE IF Cases[first].event = ""
        THEN [emitted |-> <<>>, err |-> NoErr]
        ELSE [emitted |-> <<Emit(Cases[first].event, message)>>, err |-> NoErr]

\* nothing was received yet
Silence ==
    [sess |-> 0, data |-> [wellformed |-> FALSE, json |-> [type |-> "", payload |-> ""]],
     raw |-> <<>>, emitted |-> <<>>, err |-> NoErr]

(* ------------------------------- Init --------------------------------- *)
\* index.ts:34-49: expiry in the year 2000, empty maps, authorize() started
Init ==
    /\ now = TickMs
    /\ auth = 0
    /\ authExpireTime = 0
    /\ sockets = [e \in Endpoints |-> 0]
    /\ raceDetailsCache = [r \in RaceUrls |-> NullSnap]
    /\ sess = <<>>
    /\ proc = [p \in Procs |->
                 IF p = Ctor THEN [IdleProc EXCEPT !.op = "ctor", !.pc = "az_wait",
                                                   !.stack = <<"done">>]
                             ELSE IdleProc]
    /\ srv = [r \in RaceUrls |-> OPEN]
    /\ msgCount = 0
    /\ calls = 0
    /\ created = 0
    /\ uncaught = FALSE
    /\ heard = Silence

(* ------------------------- one turn of the loop ----------------------- *)
\* the state as one value g, handed through the code that runs in one turn
Here ==
    [now |-> now, auth |-> auth, authExpireTime |-> authExpireTime, sockets |-> sockets,
     raceDetailsCache |-> raceDetailsCache, sess |-> sess, proc |-> proc, srv |-> srv,
     msgCount |-> msgCount, calls |-> calls, created |-> created, uncaught |-> uncaught,
     heard |-> heard]

\* the turn ends in state g
Becomes(g) ==
    /\ now' = g.now
    /\ auth' = g.auth
    /\ authExpireTime' = g.authExpireTime
    /\ sockets' = g.sockets
    /\ raceDetailsCache' = g.raceDetailsCache
    /\ sess' = g.sess
    /\ proc' = g.proc
    /\ srv' = g.srv
    /\ msgCount' = g.msgCount
    /\ calls' = g.calls
    /\ created' = g.created
    /\ uncaught' = g.uncaught
    /\ heard' = g.heard

SetProc(g, p, pr) == [g EXCEPT !.proc[p] = pr]

\* an exception leaves every frame: no function of the client catches it
Throw(pr, e) == [pr EXCEPT !.pc = "done", !.stack = <<>>, !.err = e]

\* a return resumes the awaiting caller at the label on top of the stack
Return(pr) == [pr EXCEPT !.pc = Head(pr.stack), !.stack = Tail(pr.stack)]

Push(pr, label) == [pr EXCEPT !.stack = <<label>> \o @]

\* a comparison that lets the expiry instant itself pass
ExpiredStrict(g) == g.authExpireTime < g.now

\* index.ts:53 and index.ts:200
Expired(g) == g.authExpireTime <= g.now

\* a window that still counts its last millisecond
IsFreshInclusive(raceDetails, t) == raceDetails.last_updated + CacheWindowMs >= t

\* index.ts:122
IsFresh(raceDetails, t) == raceDetails.last_updated + CacheWindowMs > t

\* index.ts:120-126: an entry exists and is inside the 30 seconds cache
CacheHit(g, raceUrl) ==
    /\ g.raceDetailsCache[raceUrl].present
    /\ IsFresh(g.raceDetailsCache[raceUrl], g.now)

\* a lookup that never finds the registered session
HasSocketNever(g, roomUrl) == FALSE

\* index.ts:52
HasSocket(g, roomUrl) == g.sockets[roomUrl] # 0

\* index.ts:68
Abnormal(code) == code > NormalCloseCode

\* Response.ok
IsOk(status) == status >= 200 /\ status <= 299

(* ------------------------ authorize (index.ts:179) -------------------- *)
\* index.ts:180-186: the synchronous prefix sends the exchange and awaits it
Authorize(g, p, retLabel) ==
    SetProc(g, p, [Push(g.proc[p], retLabel) EXCEPT !.pc = "az_wait"])

(* -------------------- authenticatedFetch (index.ts:199) --------------- *)
\* index.ts:205-207: attach the bearer token and send the request
SendRequest(g, p) ==
    LET pr == g.proc[p]
    IN  IF g.auth = 0
        THEN SetProc(g, p, Throw(pr, Err("TypeError: auth is undefined", "")))
        ELSE SetProc(g, p, [pr EXCEPT !.pc = "af_wait",
                                      !.nGets = IF pr.req = "get" THEN @ + 1 ELSE @,
                                      !.staleSends =
                                          IF g.auth > g.now THEN @ ELSE @ + 1])

\* index.ts:199-204: synchronous prefix of authenticatedFetch
AuthenticatedFetch(g, p, req, retLabel) ==
    LET h == SetProc(g, p, Push([g.proc[p] EXCEPT !.req = req], retLabel))
    IN  IF Expired(g) THEN Authorize(h, p, "af_authd") ELSE SendRequest(h, p)

\* index.ts:201-207: authorize() returned
AfAuthd(g, p) ==
    IF ~g.proc[p].retBool
    THEN SetProc(g, p, Throw(g.proc[p], Err("Unable to refresh access_token!", "")))
    ELSE SendRequest(g, p)

\* the document GET {raceUrl}/data serves at this moment
SnapshotDoc(raceUrl) ==
    [present |-> TRUE, url |-> raceUrl, status |-> srv[raceUrl], ws |-> WsOf(raceUrl),
     last_updated |-> 0]

(* ---------------------- fetchRaceData (index.ts:119) ------------------ *)
\* index.ts:120-127: synchronous prefix; a fresh entry is returned at once,
\* otherwise the snapshot is requested
FetchRaceData(g, p, raceUrl, retLabel) ==
    LET entry == g.raceDetailsCache[raceUrl]
        q == [g.proc[p] EXCEPT !.url = raceUrl, !.nGets = 0, !.fdDone = FALSE,
                               !.fdFresh = /\ entry.present
                                           /\ g.now - entry.last_updated < CacheWindowMs]
    IN  IF CacheHit(g, raceUrl)
        THEN SetProc(g, p, [q EXCEPT !.snap = entry, !.hit = TRUE, !.fdDone = TRUE,
                                     !.pc = retLabel])
        ELSE AuthenticatedFetch(SetProc(g, p, Push([q EXCEPT !.hit = FALSE], retLabel)),
                                p, "get", "fd_resp")

\* index.ts:128-129 and 143-145: an OK answer is decoded, any other gives null
FdResp(g, p) ==
    IF g.proc[p].resp.ok
    THEN SetProc(g, p, [g.proc[p] EXCEPT !.pc = "fd_json"])
    ELSE SetProc(g, p, Return([g.proc[p] EXCEPT !.snap = NullSnap, !.fdDone = TRUE]))

\* index.ts:130-131: the decoded document, stamped
Stamped(doc, t) == [doc EXCEPT !.last_updated = t]

\* index.ts:130-142: what fetchRaceData returns for the body of an OK answer
Decoded(resp, t) == IF resp.ok /\ resp.decodes THEN Stamped(resp.doc, t) ELSE NullSnap

\* a failure path that also evicts the entry
StoreSnapshotEvict(cache, raceUrl, resp, t) ==
    [cache EXCEPT ![raceUrl] = Decoded(resp, t)]

\* index.ts:132: the entry is replaced only by a decoded document
StoreSnapshot(cache, raceUrl, resp, t) ==
    IF resp.ok /\ resp.decodes THEN [cache EXCEPT ![raceUrl] = Decoded(resp, t)] ELSE cache

\* index.ts:130-142: the body was read
FdJson(g, p) ==
    LET pr == g.proc[p]
        h == [g EXCEPT !.raceDetailsCache = StoreSnapshot(@, pr.url, pr.resp, g.now)]
    IN  SetProc(h, p, Return([pr EXCEPT !.snap = Decoded(pr.resp, g.now),
                                       !.fdDone = TRUE]))

(* ----------------------- joinRaceRoom (index.ts:51) ------------------- *)
\* index.ts:58-74: construct the session, register it, await ready / socket error
Construct(g, p, roomUrl) ==
    LET pr == g.proc[p]
        i == Len(g.sess) + 1
    IN  IF g.auth = 0
        THEN SetProc(g, p, Throw(pr, Err("TypeError: auth is undefined", "")))
        ELSE SetProc([g EXCEPT !.sess = Append(@, [NewWebSocketClient(roomUrl, g.auth)
                                                    EXCEPT !.staleToken = g.auth <= g.now]),
                               !.sockets[roomUrl] = i],
                     p, [pr EXCEPT !.pc = "jr_wait", !.waitSess = i,
                                   !.promise = "pending", !.nConns = @ + 1])

\* index.ts:51-78: synchronous prefix of joinRaceRoom
JoinRaceRoom(g, p, roomUrl, retLabel) ==
    LET q == [g.proc[p] EXCEPT !.ep = roomUrl, !.nConns = 0, !.waitSess = 0,
                               !.promise = "none", !.found = (g.sockets[roomUrl] # 0)]
    IN  IF ~HasSocket(g, roomUrl)
        THEN IF Expired(g)
             THEN Authorize(SetProc(g, p, Push(q, retLabel)), p, "jr_authd")
             ELSE Construct(SetProc(g, p, Push(q, retLabel)), p, roomUrl)
        ELSE SetProc(g, p, [q EXCEPT !.retBool = TRUE, !.pc = retLabel])

\* index.ts:54-59: authorize() returned inside joinRaceRoom
JrAuthd(g, p) ==
    IF ~g.proc[p].retBool
    THEN SetProc(g, p, Throw(g.proc[p], Err("Unable to refresh access_token!", "")))
    ELSE Construct(g, p, g.proc[p].ep)

\* a join that returns without waiting for 'ready'
JoinReturnsEarly(pr) == FALSE

\* index.ts:60-74: the returned promise is pending until 'ready' or 'socket error'
JoinWaits(pr) == pr.promise = "pending"

\* index.ts:60-66: the promise settled
JrSettled(g, p) ==
    IF g.proc[p].promise = "rejected"
    THEN SetProc(g, p, Throw(g.proc[p], Err("socket error", "")))
    ELSE SetProc(g, p, Return([g.proc[p] EXCEPT !.retBool = TRUE]))

(* ------------------ createRace (index.ts:83-101) ---------------------- *)
\* an error that carries the status text instead of the body
CreateErrorStatusText(resp) == Err("Unable to create race", "")

\* index.ts:99
CreateError(resp) == Err("Unable to create race", resp.body)

\* index.ts:92-100: the creation POST answered
CrResp(g, p) ==
    IF g.proc[p].resp.status = CreatedStatus
    THEN FetchRaceData(g, p, g.proc[p].resp.location, "cr_snap")
    ELSE SetProc(g, p, Throw(g.proc[p], CreateError(g.proc[p].resp)))

\* a caller that falls back to the room of its race url when no snapshot came
JoinSnapshotRoomAnyway(g, p, retLabel) ==
    IF ~g.proc[p].snap.present
    THEN JoinRaceRoom(g, p, WsOf(g.proc[p].url), retLabel)
    ELSE JoinRaceRoom(g, p, g.proc[p].snap.ws, retLabel)

\* index.ts:105 and index.ts:168: join the room named by the snapshot
JoinSnapshotRoom(g, p, retLabel) ==
    IF ~g.proc[p].snap.present
    THEN SetProc(g, p, Throw(g.proc[p], Err("TypeError: raceData is null", "")))
    ELSE JoinRaceRoom(g, p, g.proc[p].snap.ws, retLabel)

\* index.ts:94-97: the snapshot of the new race arrived
CrSnap(g, p) ==
    IF g.proc[p].connect
    THEN JoinSnapshotRoom(g, p, "cr_joined")
    ELSE SetProc(g, p, [g.proc[p] EXCEPT !.pc = "done"])

\* index.ts:96-97: joined, return raceData
CrJoined(g, p) == SetProc(g, p, [g.proc[p] EXCEPT !.pc = "done"])

(* --------- cancelRace (index.ts:103-114), sendMessage (166-174) ------- *)
CnSnap1(g, p) == JoinSnapshotRoom(g, p, "cn_joined")

SmSnap(g, p) == JoinSnapshotRoom(g, p, "sm_joined")

\* this.sockets.get(url).sendMessage(message), and the server reading the frame
Deliver(g, i, new) ==
    [g EXCEPT !.sess[i] = new,
              !.srv[RaceOf(g.sess[i].url)] = Applied(@, g.sess[i], new)]

\* the facade hands a new action to the session registered for the room
SendToRoom(g, roomUrl, action) ==
    LET i == g.sockets[roomUrl]
    IN  Deliver([g EXCEPT !.msgCount = @ + 1], i,
                Submit(g.sess[i], RTAction(action, g.msgCount + 1)))

\* index.ts:106-109: send the cancel command, then fetch the snapshot again
CnJoined(g, p) ==
    FetchRaceData(SendToRoom(g, g.proc[p].ep, CANCEL), p, g.proc[p].url, "cn_snap2")

\* index.ts:110-113
CancelResult(newData) == newData.status = CANCELLED

CnSnap2(g, p) ==
    IF ~g.proc[p].snap.present
    THEN SetProc(g, p, Throw(g.proc[p], Err("TypeError: newData is null", "")))
    ELSE SetProc(g, p, [g.proc[p] EXCEPT !.retBool = CancelResult(g.proc[p].snap),
                                         !.pc = "done"])

\* index.ts:169-173: send the chat message
SmJoined(g, p) ==
    SetProc(SendToRoom(g, g.proc[p].ep, MESSAGE), p, [g.proc[p] EXCEPT !.pc = "done"])

(* ----------------------- promise continuations ------------------------ *)
\* the awaits that end a turn: they need the network, or the caller
Awaits(pr) ==
    \/ pr.pc \in {"idle", "done", "az_wait", "af_wait", "fd_json"}
    \/ pr.pc = "jr_wait" /\ JoinWaits(pr)

\* the code of call p from its current label to its next await
Continue(g, p) ==
    CASE g.proc[p].pc = "af_authd"  -> AfAuthd(g, p)
      [] g.proc[p].pc = "fd_resp"   -> FdResp(g, p)
      [] g.proc[p].pc = "jr_authd"  -> JrAuthd(g, p)
      [] g.proc[p].pc = "jr_wait"   -> JrSettled(g, p)
      [] g.proc[p].pc = "cr_resp"   -> CrResp(g, p)
      [] g.proc[p].pc = "cr_snap"   -> CrSnap(g, p)
      [] g.proc[p].pc = "cr_joined" -> CrJoined(g, p)
      [] g.proc[p].pc = "cn_snap1"  -> CnSnap1(g, p)
      [] g.proc[p].pc = "cn_joined" -> CnJoined(g, p)
      [] g.proc[p].pc = "cn_snap2"  -> CnSnap2(g, p)
      [] g.proc[p].pc = "sm_snap"   -> SmSnap(g, p)
      [] g.proc[p].pc = "sm_joined" -> SmJoined(g, p)

\* a settled await resumes its function in the same turn, before any other event
RECURSIVE Run(_, _)
Run(g, p) == IF Awaits(g.proc[p]) THEN g ELSE Run(Continue(g, p), p)

RECURSIVE Resume(_, _)
Resume(g, ps) ==
    IF ps = {} THEN g
    ELSE LET p == CHOOSE q \in ps : TRUE IN Resume(Run(g, p), ps \ {p})

(* ------------------------------ events -------------------------------- *)
\* index.ts:180-196: the await of the token POST settled.  An OK answer is
\* stored with its expiry; a non-OK answer emits 'auth error' and returns
\* false; a fetch that rejects leaves authorize() as an exception
AuthorizeSettled(g, p, outcome, expires_in) ==
    CASE outcome = "granted" ->
           [g EXCEPT !.auth = g.now + expires_in * MsPerSecond,
                     !.authExpireTime = g.now + expires_in * MsPerSecond,
                     !.proc[p] = Return([@ EXCEPT !.retBool = TRUE])]
      [] outcome = "denied" ->
           [g EXCEPT !.proc[p] = Return([@ EXCEPT !.retBool = FALSE, !.azFailure = outcome,
                                                  !.nAuthErr = @ + 1])]
      [] outcome = "unreachable" ->
           [g EXCEPT !.proc[p] = Throw([@ EXCEPT !.retBool = FALSE, !.azFailure = outcome],
                                       Err("fetch failed", ""))]

\* index.ts:188-196: the token endpoint answered
AuthorizeResponse(p) ==
    /\ proc[p].pc = "az_wait"
    /\ \E outcome \in TokenOutcomes, expires_in \in ExpiresIn :
          Becomes(Run(AuthorizeSettled(Here, p, outcome, expires_in), p))

\* index.ts:180: the token endpoint could not be reached, the fetch rejects
AuthorizeUnreachable(p) ==
    /\ proc[p].pc = "az_wait"
    /\ \E expires_in \in ExpiresIn :
          Becomes(Run(AuthorizeSettled(Here, p, "unreachable", expires_in), p))

\* index.ts:207: the server answered the creation POST
AfResponsePost(p) ==
    /\ proc[p].pc = "af_wait"
    /\ proc[p].req = "post"
    /\ \E st \in PostStatuses :
          /\ st = CreatedStatus => created < Cardinality(RaceUrls)
          /\ Becomes(Run([Here EXCEPT
                !.created = IF st = CreatedStatus THEN @ + 1 ELSE @,
                !.proc[p] = Return([@ EXCEPT !.resp =
                   [status |-> st, ok |-> IsOk(st),
                    location |-> IF st = CreatedStatus THEN NthRace(created + 1) ELSE "",
                    body |-> IF st = CreatedStatus THEN "" ELSE ErrorBody,
                    decodes |-> FALSE, doc |-> NullSnap]])], p))

\* index.ts:207: the server answered the snapshot GET
AfResponseGet(p) ==
    /\ proc[p].pc = "af_wait"
    /\ proc[p].req = "get"
    /\ \E st \in GetStatuses, dec \in BOOLEAN :
          /\ Becomes(Run([Here EXCEPT
                !.proc[p] = Return([@ EXCEPT !.resp =
                   [status |-> st, ok |-> IsOk(st), location |-> "",
                    body |-> IF IsOk(st) THEN "" ELSE ErrorBody,
                    decodes |-> IsOk(st) /\ dec,
                    doc |-> IF IsOk(st) /\ dec THEN SnapshotDoc(proc[p].url)
                                               ELSE NullSnap]])], p))

\* index.ts:130: the body of the OK answer was read
DecodeBody(p) ==
    /\ proc[p].pc = "fd_json"
    /\ Becomes(Run(FdJson(Here, p), p))

\* the joins whose promise the events of session i settle
Waiting(i) ==
    {p \in Callers : proc[p].pc = "jr_wait" /\ proc[p].waitSess = i
                     /\ proc[p].promise = "pending"}

\* listeners whose last call decides the promise
SettleLast(g, i, outcome) ==
    [g EXCEPT !.proc = [p \in Procs |->
        IF g.proc[p].waitSess = i /\ g.proc[p].promise # "none"
        THEN [g.proc[p] EXCEPT !.promise = outcome] ELSE g.proc[p]]]

\* 'ready' / 'socket error' listeners of index.ts:61-66 settle the promise of
\* the join that constructed session i; a settled promise stays settled
Settle(g, i, outcome) ==
    [g EXCEPT !.proc = [p \in Procs |->
        IF p \in Waiting(i) THEN [g.proc[p] EXCEPT !.promise = outcome] ELSE g.proc[p]]]

\* client.ts:39-46: socket 'open'; the join resumes once the handler is through
SockOpen(i) ==
    /\ i \in DOMAIN sess
    /\ sess[i].sock = "connecting"
    /\ Becomes(Resume(Deliver(Settle(Here, i, "resolved"), i,
                              OpenHandler([sess[i] EXCEPT !.sock = "open"])),
                      Waiting(i)))

\* index.ts:67-73: the facade's 'close' listener; WebSocketClient defines no
\* reconnect(), so the call raises a TypeError inside the event handler
CloseListener(code) == IF Abnormal(code) THEN TRUE ELSE uncaught

\* a close that still puts the pending queue on the transport
SockCloseFlushes(i, code) ==
    /\ i \in DOMAIN sess
    /\ sess[i].sock \in {"connecting", "open"}
    /\ Becomes([Here EXCEPT
          !.sess[i] = [@ EXCEPT !.sock = "closed", !.closeCode = code,
                                !.wire = @ \o [k \in DOMAIN sess[i].messageQueue |->
                                                 Stringify(sess[i].messageQueue[k])]],
          !.uncaught = CloseListener(code)])

\* client.ts:53-56: socket 'close'
SockClose(i, code) ==
    /\ i \in DOMAIN sess
    /\ sess[i].sock \in {"connecting", "open"}
    /\ Becomes([Here EXCEPT !.sess[i] = [@ EXCEPT !.sock = "closed", !.closeCode = code],
                            !.uncaught = CloseListener(code)])

\* client.ts:58-61: socket 'error'
SockError(i) ==
    /\ i \in DOMAIN sess
    /\ sess[i].sock \in {"connecting", "open"}
    /\ Waiting(i) # {}
    /\ Becomes(Resume(Settle(Here, i, "rejected"), Waiting(i)))

\* client.ts:58-61: socket 'error' on a session whose join is already settled
SockErrorLate(i) ==
    /\ i \in DOMAIN sess
    /\ sess[i].sock \in {"connecting", "open"}
    /\ Waiting(i) = {}
    /\ ~sess[i].erredLate
    /\ Becomes(Settle([Here EXCEPT !.sess[i].erredLate = TRUE], i, "rejected"))

\* client.ts:48-51: socket 'message'; an error raised by handleMessage leaves
\* the handler
SockMessage(i, data) ==
    /\ i \in DOMAIN sess
    /\ sess[i].sock = "open"
    /\ LET h == HandleMessage(data)
       IN  Becomes([Here EXCEPT
              !.heard = [sess |-> i, data |-> data, raw |-> <<Emit("raw message", data)>>,
                         emitted |-> h.emitted, err |-> h.err],
              !.uncaught = @ \/ h.err.thrown])

\* a caller holding the session (client.sockets.get(url)) calls sendMessage on it
DirectSend(i) ==
    /\ i \in DOMAIN sess
    /\ sockets[sess[i].url] = i
    /\ msgCount < MaxMsgs
    /\ Becomes(Deliver([Here EXCEPT !.msgCount = @ + 1], i,
                       Submit(sess[i], RTAction(MESSAGE, msgCount + 1))))

\* the clock advances
Tick ==
    /\ now < TickMs * (MaxTicks + 1)
    /\ Becomes([Here EXCEPT !.now = @ + TickMs])

(* --------------------------- public operations ------------------------ *)
\* callers are interchangeable: they are numbered in the order of their first call
CanCall(p) ==
    /\ proc[p].pc \in {"idle", "done"}
    /\ \A q \in Callers : q < p => proc[q].pc # "idle"
    /\ calls < MaxCalls

Fresh(op) == [IdleProc EXCEPT !.op = op]

\* the state in which the body of the operation starts
Begin(p, pr) == [Here EXCEPT !.calls = @ + 1, !.proc[p] = pr]

\* joinRaceRoom(roomUrl) called by the application
CallJoinRaceRoom(p, roomUrl) ==
    /\ CanCall(p)
    /\ Becomes(Run(JoinRaceRoom(Begin(p, Fresh("join")), p, roomUrl, "done"), p))

\* fetchRaceData(raceUrl) called by the application
CallFetchRaceData(p, raceUrl) ==
    /\ CanCall(p)
    /\ Becomes(Run(FetchRaceData(Begin(p, Fresh("fetch")), p, raceUrl, "done"), p))

\* index.ts:83-90: createRace sends the creation POST
CallCreateRace(p, connectToRoom) ==
    /\ CanCall(p)
    /\ Becomes(Run(AuthenticatedFetch(
                      Begin(p, [Fresh("create") EXCEPT !.connect = connectToRoom]),
                      p, "post", "cr_resp"), p))

\* index.ts:103-104 and index.ts:166-167: cancelRace / sendMessage fetch the snapshot
CallCancelRace(p, raceUrl) ==
    /\ CanCall(p)
    /\ Becomes(Run(FetchRaceData(Begin(p, Fresh("cancel")), p, raceUrl, "cn_snap1"), p))

CallSendMessage(p, raceUrl) ==
    /\ CanCall(p)
    /\ Becomes(Run(FetchRaceData(Begin(p, Fresh("send")), p, raceUrl, "sm_snap"), p))

(* ------------------------------- Next --------------------------------- *)
\* the clock and the credential manager, shared by every operation
AuthSteps ==
    \/ Tick
    \/ \E p \in Procs : AuthorizeResponse(p)

HttpSteps ==
    \/ \E p \in Callers : AfResponseGet(p)
    \/ \E p \in Callers : DecodeBody(p)

\* the socket events of the sessions
SocketSteps ==
    \/ \E i \in SessionIds : SockOpen(i)
    \/ \E i \in SessionIds, code \in CloseCodes : SockClose(i, code)
    \/ \E i \in SessionIds : SockError(i)

\* the snapshot cache: callers of fetchRaceData
NextFetch ==
    \/ AuthSteps
    \/ \E p \in Procs : AuthorizeUnreachable(p)
    \/ HttpSteps
    \/ \E p \in Callers, r \in CallerRaces : CallFetchRaceData(p, r)

\* the sessions: callers of joinRaceRoom and of WebSocketClient.sendMessage
NextJoin ==
    \/ AuthSteps
    \/ SocketSteps
    \/ \E p \in Callers, e \in CallerRooms : CallJoinRaceRoom(p, e)
    \/ \E i \in SessionIds : DirectSend(i)

\* joinRaceRoom and every event of its sessions
NextSettle ==
    \/ AuthSteps
    \/ SocketSteps
    \/ \E p \in Callers, e \in CallerRooms : CallJoinRaceRoom(p, e)
    \/ \E i \in SessionIds : SockErrorLate(i)

\* the outbound queue of a session: joins, socket events and direct sends
NextQueue ==
    \/ \E p \in Procs : AuthorizeResponse(p)
    \/ \E p \in Callers, e \in CallerRooms : CallJoinRaceRoom(p, e)
    \/ \E i \in SessionIds : SockOpen(i)
    \/ \E i \in SessionIds, code \in CloseCodes : SockClose(i, code)
    \/ \E i \in SessionIds : DirectSend(i)

\* callers of createRace
NextCreate ==
    \/ AuthSteps
    \/ HttpSteps
    \/ SocketSteps
    \/ \E p \in Callers, c \in BOOLEAN : CallCreateRace(p, c)
    \/ \E p \in Callers : AfResponsePost(p)

\* callers of cancelRace
NextCancel ==
    \/ AuthSteps
    \/ HttpSteps
    \/ SocketSteps
    \/ \E p \in Callers, r \in CallerRaces : CallCancelRace(p, r)

\* callers of the facade's sendMessage
NextSend ==
    \/ AuthSteps
    \/ HttpSteps
    \/ SocketSteps
    \/ \E p \in Callers, r \in CallerRaces : CallSendMessage(p, r)

\* commands handed to the facade while joins of the same rooms are under way
NextHandoff ==
    \/ \E p \in Procs : AuthorizeResponse(p)
    \/ HttpSteps
    \/ SocketSteps
    \/ \E p \in Callers, e \in CallerRooms : CallJoinRaceRoom(p, e)
    \/ \E p \in Callers, r \in CallerRaces : CallCancelRace(p, r)
    \/ \E p \in Callers, r \in CallerRaces : CallSendMessage(p, r)

\* the inbound side of a joined session
NextInbound ==
    \/ \E p \in Procs : AuthorizeResponse(p)
    \/ \E p \in Callers, e \in CallerRooms : CallJoinRaceRoom(p, e)
    \/ \E i \in SessionIds : SockOpen(i)
    \/ \E i \in SessionIds, data \in Frames : SockMessage(i, data)

\* callers of the two command operations, with sockets that open
NextCommand ==
    \/ AuthSteps
    \/ HttpSteps
    \/ \E i \in SessionIds : SockOpen(i)
    \/ \E p \in Callers, r \in CallerRaces : CallCancelRace(p, r)
    \/ \E p \in Callers, r \in CallerRaces : CallSendMessage(p, r)

Next == NextFetch \/ NextJoin \/ NextSettle \/ NextQueue \/ NextCreate \/ NextCommand
        \/ NextInbound \/ NextHandoff

Spec       == Init /\ [][Next]_vars
SpecFetch  == Init /\ [][NextFetch]_vars
SpecJoin   == Init /\ [][NextJoin]_vars
SpecCreate == Init /\ [][NextCreate]_vars
SpecCancel == Init /\ [][NextCancel]_vars
SpecSend   == Init /\ [][NextSend]_vars
SpecInbound == Init /\ [][NextInbound]_vars
SpecCommand == Init /\ [][NextCommand]_vars
SpecSettle  == Init /\ [][NextSettle]_vars
SpecQueue   == Init /\ [][NextQueue]_vars
SpecHandoff == Init /\ [][NextHandoff]_vars

TypeOK ==
    /\ now \in Nat
    /\ auth \in {0, authExpireTime}
    /\ Len(sess) <= MaxCalls
    /\ \A e \in Endpoints : sockets[e] \in 0..Len(sess)
    /\ \A p \in Procs : Awaits(proc[p])

(* ======================================================================= *)
(*                               Properties                                *)
(* ======================================================================= *)

\* connection attempts made so far against room url e (one per constructed socket)
Attempts(e) == Cardinality({i \in DOMAIN sess : sess[i].url = e})

\* caller p takes a step of its own
Moves(p) == proc'[p] # proc[p]

\* C1: the actions passed to WebSocketClient.sendMessage before the socket opened
\* are, once the queue was flushed on open, the first frames on the transport,
\* each once and in call order; everything sent after ready comes behind them.
SendOrderPreserved ==
    \A i \in DOMAIN sess :
        LET s == sess[i]
        IN  s.ready =>
              /\ Len(s.wire) >= Len(s.pre)
              /\ \A k \in 1..Len(s.pre) : s.wire[k] = Stringify(s.pre[k])
              /\ \A k \in (Len(s.pre) + 1)..Len(s.wire) :
                    \A j \in 1..Len(s.pre) : s.wire[k] # Stringify(s.pre[j])

\* two actions were queued before open and the flush put them on the transport
SendOrderWitness ==
    \E i \in DOMAIN sess :
        /\ sess[i].ready
        /\ Len(sess[i].pre) >= 2
        /\ Len(sess[i].wire) >= 2
        /\ sess[i].messageQueue = <<>>

\* C4: a joinRaceRoom call made while the room url is registered resolves true
\* at once, keeps the registered session and constructs no socket.
JoinIdempotent ==
    [][\A p \in Callers :
          (/\ calls' = calls + 1
           /\ Moves(p)
           /\ proc'[p].op = "join"
           /\ sockets[proc'[p].ep] # 0)
          => /\ sockets' = sockets
             /\ sess' = sess
             /\ proc'[p].pc = "done"
             /\ proc'[p].retBool
             /\ ~proc'[p].err.thrown]_vars

\* a second join found the live session of the first one
JoinIdempotentWitness ==
    \E p \in Callers :
        /\ proc[p].op = "join"
        /\ proc[p].found
        /\ proc[p].pc = "done"
        /\ proc[p].retBool
        /\ sess[sockets[proc[p].ep]].sock = "open"
        /\ Len(sess) = 1

\* C5: a close with an abnormal code is followed, in the close handler, by
\* exactly one new connection attempt against the same room url; a close with
\* a normal code by none.
ReconnectOnAbnormalClose ==
    [][\A i \in DOMAIN sess :
          (sess[i].sock # "closed" /\ sess'[i].sock = "closed")
          => Attempts(sess[i].url)' =
                Attempts(sess[i].url) + (IF sess'[i].closeCode > 1000 THEN 1 ELSE 0)]_vars

\* C6: after a close the registry has dropped the room url if the code was
\* normal and still holds it if the code was abnormal.
RegistryFollowsClose ==
    \A i \in DOMAIN sess :
        sess[i].sock = "closed"
        => IF sess[i].closeCode <= 1000
           THEN sockets[sess[i].url] # i
           ELSE sockets[sess[i].url] # 0

\* C2: a token exchange starts only when the credential has expired, and never
\* while another exchange is in flight: concurrent operations share one refresh.
SingleExchangePerRefresh ==
    [][\A p \in Callers :
          (proc[p].pc # "az_wait" /\ proc'[p].pc = "az_wait")
          => /\ authExpireTime <= now
             /\ \A q \in Procs \ {p} : proc[q].pc # "az_wait"]_vars

\* C3: fetchRaceData answers from the cache exactly when an entry exists with
\* now - last_updated < 30 s; a cached answer costs no GET and a completed
\* fetch past the window costs exactly one.
CacheHitIffFresh ==
    \A p \in Callers :
        proc[p].op = "fetch"
        => /\ proc[p].hit <=> proc[p].fdFresh
           /\ proc[p].hit => /\ proc[p].nGets = 0
                             /\ proc[p].fdDone
                             /\ proc[p].snap.present
                             /\ proc[p].snap.url = proc[p].url
           /\ (~proc[p].hit /\ proc[p].fdDone) => proc[p].nGets = 1
           /\ proc[p].nGets <= 1

\* one call fetched the snapshot with one GET, a second call inside the window
\* was then served from the cache without a GET
CacheHitWitness ==
    \E p, q \in Callers :
        /\ p # q
        /\ proc[p].op = "fetch" /\ proc[p].pc = "done"
        /\ ~proc[p].hit /\ proc[p].nGets = 1 /\ proc[p].snap.present
        /\ proc[q].op = "fetch" /\ proc[q].pc = "done"
        /\ proc[q].url = proc[p].url
        /\ proc[q].hit /\ proc[q].nGets = 0
        /\ proc[q].snap = proc[p].snap

\* C10: for a non-OK answer or a body that does not decode, fetchRaceData
\* returns null without raising and leaves the cache as it was.
FetchFailureReturnsNull ==
    [][\A p \in Callers :
          (/\ proc[p].op = "fetch"
           /\ Moves(p)
           /\ \/ proc[p].pc = "af_wait" /\ ~IsOk(proc'[p].resp.status)
              \/ proc[p].pc = "fd_json" /\ ~proc[p].resp.decodes)
          => /\ proc'[p].pc = "done"
             /\ ~proc'[p].err.thrown
             /\ ~proc'[p].snap.present
             /\ proc'[p].fdDone
             /\ raceDetailsCache' = raceDetailsCache]_vars

\* a 404 was answered with null while a stale entry stayed in the cache
FetchFailureWitness ==
    \E p \in Callers :
        /\ proc[p].op = "fetch" /\ proc[p].pc = "done"
        /\ proc[p].fdDone /\ ~proc[p].hit
        /\ proc[p].resp.status = 404
        /\ ~proc[p].snap.present
        /\ ~proc[p].err.thrown
        /\ raceDetailsCache[proc[p].url].present

\* C7: cancelRace returns true exactly when the race is cancelled on the server
\* once the cancel command was sent, whatever the cache holds.
CancelReportsCancelled ==
    [][\A p \in Callers :
          (/\ Moves(p)
           /\ proc'[p].op = "cancel"
           /\ proc'[p].pc = "done"
           /\ ~proc'[p].err.thrown)
          => (proc'[p].retBool <=> srv'[proc'[p].url] = CANCELLED)]_vars

\* C8: a createRace(params, true) that returns has made exactly one connection
\* attempt to the snapshot's websocket_bot_url, that session is ready, and the
\* value returned is the snapshot of the race at the Location.
CreateJoinsOnce ==
    \A p \in Callers :
        (/\ proc[p].op = "create" /\ proc[p].connect
         /\ proc[p].pc = "done" /\ ~proc[p].err.thrown)
        => /\ proc[p].snap.present
           /\ proc[p].snap.url = proc[p].url
           /\ proc[p].nConns = 1
           /\ Attempts(proc[p].snap.ws) = 1
           /\ proc[p].waitSess \in DOMAIN sess
           /\ sess[proc[p].waitSess].url = proc[p].snap.ws
           /\ sess[proc[p].waitSess].ready

\* a createRace(params, true) returned the new race's snapshot
CreateJoinsOnceWitness ==
    \E p \in Callers :
        /\ proc[p].op = "create" /\ proc[p].connect
        /\ proc[p].pc = "done" /\ ~proc[p].err.thrown
        /\ proc[p].snap.present
        /\ Attempts(proc[p].snap.ws) = 1
        /\ sess[proc[p].waitSess].ready

\* C9: when the creation POST is answered with a status other than 201,
\* createRace raises an error carrying the body text; it fetches no snapshot,
\* adds no cache entry and constructs no session.
CreateFailureHasNoEffects ==
    [][\A p \in Callers :
          (/\ proc[p].pc = "af_wait"
           /\ proc[p].req = "post"
           /\ Moves(p)
           /\ proc'[p].resp.status # 201)
          => /\ proc'[p].pc = "done"
             /\ proc'[p].err.thrown
             /\ proc'[p].err.body = proc'[p].resp.body
             /\ proc'[p].nGets = 0
             /\ proc'[p].nConns = 0
             /\ raceDetailsCache' = raceDetailsCache
             /\ sess' = sess
             /\ sockets' = sockets]_vars

\* a createRace ended in the creation error for a 400 answer
CreateFailureWitness ==
    \E p \in Callers :
        /\ proc[p].op = "create" /\ proc[p].pc = "done"
        /\ proc[p].resp.status = 400
        /\ proc[p].err.thrown
        /\ proc[p].err.msg = "Unable to create race"
        /\ proc[p].err.body = ErrorBody

\* the typed events of WebSocketEvents (client.ts:12-22)
TypedEvents ==
    {"chat-history", "chat-message", "chat-dm", "chat-pin", "chat-unpin", "chat-delete",
     "chat-purge", "rt error", "pong", "race-data"}

\* the typed event that belongs to each actionable kind of frame
EventOf(type) ==
    CASE type = "chat.message" -> "chat-message"
      [] type = "chat.history" -> "chat-history"
      [] type = "chat.pin"     -> "chat-pin"
      [] type = "chat.delete"  -> "chat-delete"
      [] type = "chat.purge"   -> "chat-purge"
      [] type = "error"        -> "rt error"
      [] type = "race.data"    -> "race-data"

Actionable ==
    {"chat.message", "chat.history", "chat.pin", "chat.delete", "chat.purge", "error",
     "race.data"}

\* the kinds RTMessageTypes names
KnownKinds ==
    {CHAT_HISTORY, CHAT_MESSAGE, CHAT_DM, CHAT_PIN, CHAT_UNPIN, CHAT_DELETE, CHAT_PURGE,
     ERROR, PONG, RACE_DATA, RACE_RENDERS}

\* C11: an inbound frame of an actionable kind is dispatched to exactly one
\* typed event, the one of its kind, carrying the decoded message unchanged,
\* and handling it raises nothing.
DispatchExactlyOnce ==
    (heard.sess # 0 /\ heard.data.wellformed /\ heard.data.json.type \in Actionable)
    => /\ Len(heard.emitted) = 1
       /\ heard.emitted[1].event = EventOf(heard.data.json.type)
       /\ heard.emitted[1].arg = heard.data.json
       /\ ~heard.err.thrown

\* a chat.pin frame was dispatched as one chat-pin event with its payload
DispatchWitness ==
    /\ heard.sess # 0
    /\ heard.data.wellformed
    /\ heard.data.json.type = "chat.pin"
    /\ heard.emitted = <<Emit("chat-pin", [type |-> "chat.pin", payload |-> "b"])>>

\* C12: an inbound frame whose type is none of the known kinds makes
\* handleMessage raise the unknown-type error, which leaves the message
\* handler, and no typed event is emitted.
UnknownKindRaises ==
    (heard.sess # 0 /\ heard.data.wellformed /\ heard.data.json.type \notin KnownKinds)
    => /\ heard.err.thrown
       /\ heard.err.msg = "Unknown message type"
       /\ heard.err.body = heard.data.json.type
       /\ \A k \in DOMAIN heard.emitted : heard.emitted[k].event \notin TypedEvents
       /\ heard.emitted = <<>>
       /\ uncaught

\* a bogus.kind frame was received and raised
UnknownKindWitness ==
    /\ heard.sess # 0
    /\ heard.data.wellformed
    /\ heard.data.json.type = "bogus.kind"
    /\ heard.err.thrown
    /\ heard.emitted = <<>>

\* C13: when a token exchange that a caller's operation needed fails, the
\* operation emits one 'auth error' event and raises; the credential and its
\* expiry stay as they were, no authenticated request is sent and no session
\* is constructed or registered.
AuthFailureEmitsAndRaises ==
    [][\A p \in Callers :
          (/\ proc[p].pc = "az_wait"
           /\ Moves(p)
           /\ proc'[p].azFailure # "")
          => /\ proc'[p].nAuthErr = proc[p].nAuthErr + 1
             /\ proc'[p].pc = "done"
             /\ proc'[p].err.thrown
             /\ auth' = auth
             /\ authExpireTime' = authExpireTime
             /\ proc'[p].nGets = proc[p].nGets
             /\ sess' = sess
             /\ sockets' = sockets]_vars

\* C14: while a session is registered for a room url no further
\* WebSocketClient is constructed for that url, and the registered session is
\* never replaced in the map by another one.
OneSessionPerEndpoint ==
    [][\A e \in Endpoints :
          sockets[e] # 0
          => /\ sockets'[e] = sockets[e]
             /\ Attempts(e)' = Attempts(e)]_vars

\* C15: every authenticated request and every socket handshake carries a
\* token, and that token has not expired at the moment it is sent: the expiry
\* is compared with the clock on the calling path and an expired credential is
\* refreshed first.
TokenValidWhenUsed ==
    /\ \A p \in Callers : proc[p].staleSends = 0
    /\ \A i \in DOMAIN sess : sess[i].token # 0 /\ sess[i].staleToken = FALSE

\* a cancelRace sent its request and opened a handshake with a token granted
\* later than the start of the client
TokenValidWitness ==
    \E p \in Callers, i \in DOMAIN sess :
        /\ proc[p].op = "cancel"
        /\ proc[p].nGets > 0
        /\ proc[p].snap.present
        /\ proc[p].waitSess = i
        /\ sess[i].token > TickMs + 30 * MsPerSecond
        /\ sess[i].token > now

\* C16: the outbound queue of a session holds something only while the session
\* is not ready: from the open handler on ready is true and messageQueue is
\* empty, whatever is passed to sendMessage afterwards.
QueueOnlyWhileNotReady ==
    \A i \in DOMAIN sess :
        /\ sess[i].messageQueue # <<>> => ~sess[i].ready
        /\ sess[i].sock = "open" => sess[i].ready /\ sess[i].messageQueue = <<>>

\* a session queued an action before open, drained it, and took another action
\* after ready without queueing it
QueueDrainedWitness ==
    \E i \in DOMAIN sess :
        /\ sess[i].ready
        /\ Len(sess[i].pre) = 1
        /\ Len(sess[i].wire) = 2
        /\ sess[i].messageQueue = <<>>

\* C17: the close event takes the session out of the ready state, so that no
\* sendMessage made after it calls send on the closed socket.
ClosedSessionNotReady ==
    \A i \in DOMAIN sess :
        sess[i].sock = "closed"
        => /\ ~sess[i].ready
           /\ sess[i].lost = 0

\* C18: the actions still in the queue of a session when its socket closes
\* are dropped: none of them is on the transport of any session afterwards,
\* and a session that closed before it opened has transmitted nothing.
QueuedDroppedOnClose ==
    \A i \in DOMAIN sess :
        sess[i].sock = "closed"
        => /\ \A k \in DOMAIN sess[i].messageQueue :
                 \A j \in DOMAIN sess :
                    \A w \in DOMAIN sess[j].wire :
                       sess[j].wire[w] # Stringify(sess[i].messageQueue[k])
           /\ ~sess[i].ready => sess[i].wire = <<>>

\* a session closed abnormally before it opened, with two actions in its queue
QueuedDroppedWitness ==
    \E i \in DOMAIN sess :
        /\ sess[i].sock = "closed"
        /\ sess[i].closeCode = 1006
        /\ ~sess[i].ready
        /\ Len(sess[i].messageQueue) = 2
        /\ sess[i].wire = <<>>
        /\ msgCount = MaxMsgs

\* caller p starts a new operation in this step
Starts(p) == calls' = calls + 1 /\ Moves(p)

\* C19: the promise of a session-creating joinRaceRoom is settled by the first
\* of the session's 'ready' and 'socket error' events, true on ready and a
\* rejection on socket error; later events leave it as it is, and a socket
\* error makes no connection attempt.
FirstEventSettlesJoin ==
    [][/\ \A p \in Callers :
             LET i == proc[p].waitSess
             IN  /\ (proc[p].promise \in {"resolved", "rejected"} /\ ~Starts(p))
                    => /\ proc'[p].promise = proc[p].promise
                       /\ proc'[p].retBool = proc[p].retBool
                       /\ proc'[p].err = proc[p].err
                 /\ (proc[p].promise = "pending" /\ proc'[p].promise = "resolved")
                    => /\ ~sess[i].ready /\ sess'[i].ready
                       /\ proc'[p].retBool
                       /\ ~proc'[p].err.thrown
                       /\ Len(sess') = Len(sess)
                 /\ (proc[p].promise = "pending" /\ proc'[p].promise = "rejected")
                    => /\ ~sess[i].ready /\ ~sess'[i].ready
                       /\ proc'[p].pc = "done"
                       /\ proc'[p].err = Err("socket error", "")
                       /\ Len(sess') = Len(sess)
                 /\ (proc[p].promise = "pending" /\ proc'[p].promise = "pending")
                    => sess'[i].ready = sess[i].ready
       /\ \A i \in DOMAIN sess :
             (~sess[i].erredLate /\ sess'[i].erredLate) => Len(sess') = Len(sess)]_vars

\* a join resolved true on ready and a later socket error left it resolved
FirstEventWitness ==
    \E p \in Callers :
        /\ proc[p].op = "join" /\ proc[p].pc = "done"
        /\ proc[p].promise = "resolved"
        /\ proc[p].retBool /\ ~proc[p].err.thrown
        /\ sess[proc[p].waitSess].erredLate

\* C20: when fetchRaceData yields null inside cancelRace or sendMessage, the
\* operation ends in an error at once; it constructs and registers no session
\* and sends no command.
NoSnapshotNoEffects ==
    [][\A p \in Callers :
          (/\ proc[p].op \in {"cancel", "send"}
           /\ Moves(p)
           /\ \/ proc[p].pc = "af_wait" /\ ~IsOk(proc'[p].resp.status)
              \/ proc[p].pc = "fd_json" /\ ~proc[p].resp.decodes)
          => /\ proc'[p].pc = "done"
             /\ proc'[p].err.thrown
             /\ ~proc'[p].snap.present
             /\ proc'[p].nConns = proc[p].nConns
             /\ sess' = sess
             /\ sockets' = sockets
             /\ msgCount' = msgCount]_vars

\* a cancelRace and a sendMessage both ended in an error on a 404 snapshot,
\* with no session and no command
NoSnapshotWitness ==
    \E p, q \in Callers :
        /\ proc[p].op = "cancel" /\ proc[q].op = "send"
        /\ \A c \in {p, q} :
              /\ proc[c].pc = "done"
              /\ proc[c].resp.status = 404
              /\ proc[c].err = Err("TypeError: raceData is null", "")
        /\ sess = <<>>
        /\ msgCount = 0

\* the action a facade operation hands to the session
CommandOf(op) == IF op = "cancel" THEN CANCEL ELSE MESSAGE

\* caller p, in sendMessage or cancelRace, hands its command to the session in
\* this step, its own joinRaceRoom having found the room url registered
HandsOver(p) ==
    /\ Moves(p)
    /\ proc'[p].op \in {"send", "cancel"}
    /\ proc'[p].found
    /\ msgCount' = msgCount + 1

=============================================================================
